---------------------------- MODULE Spec2Model ----------------------------
(***************************************************************************)
(* Multi-vendor checkout of dukalink: the session cart, the per-vendor     *)
(* orders, the sequential M-Pesa push-payment flow with its session        *)
(* checkpoint, and the gateway's callback and timeout webhooks.            *)
(*                                                                         *)
(* One customer with one session is modelled.  Every handler is one        *)
(* atomic action.  Money is counted in whole shillings.  A session key     *)
(* that is absent reads like its default: the cart absent is the empty     *)
(* cart (Cart.__init__), 'mpesa_orders' absent is the empty list.          *)
(***************************************************************************)
EXTENDS Integers, Sequences, FiniteSets, TLC

VARIABLES
    cart,                   \* session["cart"]: lines in insertion order
    deleted,                \* products whose row was deleted
    product_price,          \* Product.price of each product row
    orders,                 \* Order rows, index = id, each with its OrderItems
    payments,               \* MpesaPayment rows, index = checkout_request_id
    vendor_payments,        \* VendorPayment rows
    mpesa_orders,           \* session['mpesa_orders']
    current_payment_index,  \* session['current_payment_index']
    last,                   \* the last request served and its response
    steps,                  \* the number of requests served so far
    call,                   \* a function applied on its own: argument and result
    inflight                \* requests being served, each with the session it loaded

vars == <<cart, deleted, product_price, orders, payments, vendor_payments, mpesa_orders,
          current_payment_index, last, steps, call, inflight>>

----------------------------------------------------------------------------
(* Bounds *)

MaxSteps == 8           \* requests served, payment-flow specification
MaxCheckoutSteps == 5   \* requests served, checkout specification
MaxCartSteps == 4       \* requests served, cart specification
MaxSettleSteps == 6     \* requests served, settlement specification
MaxPriceSteps == 5      \* requests served, price specification
MaxOrderSteps == 5      \* requests served, order specification
MaxGroupSteps == 5      \* requests served, grouping specification

----------------------------------------------------------------------------
(* The catalogue: products 1 and 2 are sold by vendor "A", 3 by "B";      *)
(* product 4 is listed without a business.  PriceOf is the price each      *)
(* product is listed at first.                                             *)

NoVendor == ""

Products == {1, 2, 3}
Vendorless == {4}
VendorOf == (1 :> "A") @@ (2 :> "A") @@ (3 :> "B") @@ (4 :> NoVendor)
PriceOf == (1 :> 100) @@ (2 :> 50) @@ (3 :> 500) @@ (4 :> 70)

NoIndex == -1
NoId == 0
NoReceipt == ""
NoCode == -1
NoUser == ""
NoTime == ""

\* the users: the customer, who owns no Business, and the vendors' owners
Customer == "customer"
Users == {Customer, "A", "B"}

\* Business.objects.get(owner=request.user): the vendors own a Business
HasBusiness(user) == \E p \in Products : VendorOf[p] = user

----------------------------------------------------------------------------
(* Phone numbers are sequences of characters. *)

Digits == {"0", "1", "2", "3", "4", "5", "6", "7", "8", "9"}

StartsWith(s, prefix) ==
    /\ Len(s) >= Len(prefix)
    /\ SubSeq(s, 1, Len(prefix)) = prefix

IsDigit(c) == c \in Digits

\* faulty variant: the length of the result is not checked
format_phone_number_unchecked(phone) ==
    LET digits == SelectSeq(phone, IsDigit)
    IN  IF StartsWith(digits, <<"0">>) THEN <<"2", "5", "4">> \o Tail(digits)
        ELSE IF StartsWith(digits, <<"7">>) THEN <<"2", "5", "4">> \o digits
        ELSE IF StartsWith(digits, <<"2", "5", "4">>) THEN digits
        ELSE IF Len(digits) = 9 THEN <<"2", "5", "4">> \o digits
        ELSE digits

\* MpesaClient.format_phone_number: <<>> stands for None
format_phone_number(phone) ==
    LET digits == SelectSeq(phone, IsDigit)
        p == IF StartsWith(digits, <<"0">>) THEN <<"2", "5", "4">> \o Tail(digits)
             ELSE IF StartsWith(digits, <<"7">>) THEN <<"2", "5", "4">> \o digits
             ELSE IF StartsWith(digits, <<"2", "5", "4">>) THEN digits
             ELSE IF Len(digits) = 9 THEN <<"2", "5", "4">> \o digits
             ELSE digits
    IN  IF Len(p) = 12 THEN p ELSE <<>>

LocalPhone == <<"0", "7", "1", "2", "3", "4", "5", "6", "7", "8">>
ShortPhone == <<"1", "2", "3", "4", "5", "6">>
Phones == {<<>>, LocalPhone, ShortPhone}

\* the inputs format_phone_number is applied to on its own: a prefix, then
\* a run of the subscriber number 712345678, or a number typed with spaces
Subscriber == <<"7", "1", "2", "3", "4", "5", "6", "7", "8">>
Prefixes == {<<>>, <<"0">>, <<"7">>, <<"1">>, <<"0", "0">>, <<"2", "5", "4">>,
             <<"+", "2", "5", "4">>, <<"2", "5", "4", "0">>}
Runs == {SubSeq(Subscriber, i, j) : i \in 1..5, j \in 0..9}
SpacedPhone == <<"0", "7", "1", "2", " ", "3", "4", "5", " ", "6", "7", "8">>
PhoneInputs == {pre \o run : pre \in Prefixes, run \in Runs} \cup {ShortPhone, SpacedPhone}

----------------------------------------------------------------------------
(* Cart *)

CartIndex(c, p) == CHOOSE i \in 1..Len(c) : c[i].product = p
InCart(c, p) == \E i \in 1..Len(c) : c[i].product = p

RECURSIVE SumQty(_)
SumQty(c) == IF c = <<>> THEN 0 ELSE Head(c).quantity + SumQty(Tail(c))

\* Cart.__len__
CartLen(c) == SumQty(c)

\* Cart.add with quantity = 1
CartAddLine(c, p) ==
    IF InCart(c, p)
    THEN [c EXCEPT ![CartIndex(c, p)].quantity = @ + 1]
    ELSE Append(c, [product |-> p, price |-> product_price[p], quantity |-> 1])

\* Cart.add raises when it creates the line of a product without a
\* business: product.business.name
AddRaises(c, p) == ~InCart(c, p) /\ VendorOf[p] = NoVendor

\* Cart.remove
CartRemoveLine(c, p) == SelectSeq(c, LAMBDA l : l.product # p)

\* for i in range(n): cart.add(product)
RECURSIVE CartAddTimes(_, _, _)
CartAddTimes(c, p, n) ==
    IF n <= 0 THEN c ELSE CartAddTimes(CartAddLine(c, p), p, n - 1)

QuantityIn(c, p) == IF InCart(c, p) THEN c[CartIndex(c, p)].quantity ELSE 0

\* cart_update_ajax, the cart it leaves
cart_update(c, p, quantity) ==
    LET diff == quantity - QuantityIn(c, p) IN
    IF quantity <= 0 THEN CartRemoveLine(c, p)
    ELSE IF diff > 0 THEN CartAddTimes(c, p, diff)
    ELSE IF diff < 0 /\ InCart(c, p)
         THEN [c EXCEPT ![CartIndex(c, p)].quantity = quantity]
    ELSE c

\* faulty variant: the quantity is lowered whatever it is
cart_decrement_below_one(c, p) ==
    IF InCart(c, p)
    THEN [c EXCEPT ![CartIndex(c, p)].quantity = @ - 1]
    ELSE c

\* cart_decrement, the cart it leaves
cart_decrement(c, p) ==
    IF InCart(c, p)
    THEN IF QuantityIn(c, p) > 1
         THEN [c EXCEPT ![CartIndex(c, p)].quantity = @ - 1]
         ELSE CartRemoveLine(c, p)
    ELSE c


----------------------------------------------------------------------------
(* group_cart_by_vendor: the vendor groups in the order in which the cart   *)
(* first names each vendor; a line whose product row is gone, or whose     *)
(* product has no business, is skipped.                                    *)

GroupIndex(groups, v) == CHOOSE i \in 1..Len(groups) : groups[i].vendor = v

\* faulty variant: the sub-total adds the unit price, not price x quantity
AddToGroups_unit_price(groups, l) ==
    LET v == VendorOf[l.product]
        item_total == l.price * l.quantity
        item == [product |-> l.product, quantity |-> l.quantity,
                 price |-> l.price, item_total |-> item_total]
    IN  IF \E i \in 1..Len(groups) : groups[i].vendor = v
        THEN [groups EXCEPT ![GroupIndex(groups, v)] =
                 [@ EXCEPT !.items = Append(@, item), !.total = @ + l.price]]
        ELSE Append(groups, [vendor |-> v, items |-> <<item>>, total |-> l.price])

\* faulty variant: the line is priced at the product's current price
AddToGroups_live_price(groups, l) ==
    LET v == VendorOf[l.product]
        item_total == product_price[l.product] * l.quantity
        item == [product |-> l.product, quantity |-> l.quantity,
                 price |-> product_price[l.product], item_total |-> item_total]
    IN  IF \E i \in 1..Len(groups) : groups[i].vendor = v
        THEN [groups EXCEPT ![GroupIndex(groups, v)] =
                 [@ EXCEPT !.items = Append(@, item), !.total = @ + item_total]]
        ELSE Append(groups, [vendor |-> v, items |-> <<item>>, total |-> item_total])

AddToGroups(groups, l) ==
    LET v == VendorOf[l.product]
        item_total == l.price * l.quantity
        item == [product |-> l.product, quantity |-> l.quantity,
                 price |-> l.price, item_total |-> item_total]
    IN  IF \E i \in 1..Len(groups) : groups[i].vendor = v
        THEN [groups EXCEPT ![GroupIndex(groups, v)] =
                 [@ EXCEPT !.items = Append(@, item), !.total = @ + item_total]]
        ELSE Append(groups, [vendor |-> v, items |-> <<item>>, total |-> item_total])

RECURSIVE GroupLines(_, _, _)
GroupLines(lines, gone, groups) ==
    IF lines = <<>> THEN groups
    ELSE IF Head(lines).product \in gone \/ VendorOf[Head(lines).product] = NoVendor
         THEN GroupLines(Tail(lines), gone, groups)
         ELSE GroupLines(Tail(lines), gone, AddToGroups(groups, Head(lines)))

\* faulty variant: the lines of deleted products are grouped like the rest
group_cart_by_vendor_keep_gone(c, gone) == GroupLines(c, {}, <<>>)

group_cart_by_vendor(c, gone) == GroupLines(c, gone, <<>>)

----------------------------------------------------------------------------
(* Order creation inside transaction.atomic() *)

OrderItemOf(g, item) ==
    [product |-> item.product, vendor |-> g.vendor,
     quantity |-> item.quantity, price |-> item.price]

NewOrder(g, status, method) ==
    [total |-> g.total, status |-> status, paid |-> FALSE,
     payment_method |-> method, payment_reference |-> NoReceipt,
     checkout_request_id |-> NoId,
     transaction_code |-> "", payment_confirmed_by |-> NoUser,
     payment_confirmed_at |-> NoTime,
     items |-> [i \in 1..Len(g.items) |-> OrderItemOf(g, g.items[i])]]

\* A database error can hit any create call: fail.g = 0 is no error,
\* fail.i = 0 the Order row of group fail.g, fail.i > 0 its i-th OrderItem.
NoFail == [g |-> 0, i |-> 0]

FailPoints(groups) ==
    {NoFail} \cup
    {[g |-> g, i |-> i] : g \in 1..Len(groups), i \in {0, 1}} \cup
    {[g |-> g, i |-> Len(groups[g].items)] : g \in 1..Len(groups)}

\* the rows written by the loop before the error (all of them without one)
RowsWritten(groups, status, method, fail) ==
    IF fail.g = 0
    THEN [k \in 1..Len(groups) |-> NewOrder(groups[k], status, method)]
    ELSE [k \in 1..(IF fail.i = 0 THEN fail.g - 1 ELSE fail.g) |->
             IF k < fail.g
             THEN NewOrder(groups[k], status, method)
             ELSE [NewOrder(groups[k], status, method)
                      EXCEPT !.items = SubSeq(@, 1, fail.i - 1)]]

\* faulty variant: the loop without the enclosing transaction
no_transaction(before, written, failed) == before \o written

\* with transaction.atomic(): an exception rolls every row back
transaction_atomic(before, written, failed) ==
    IF failed THEN before ELSE before \o written

\* the three handlers share this shape: create, then on success touch the
\* session and clear the cart; on an exception report and leave all as is
CreateOrders(groups, status, method, fail) ==
    transaction_atomic(orders, RowsWritten(groups, status, method, fail), fail.g # 0)

NewIds(groups) == [k \in 1..Len(groups) |-> Len(orders) + k]

----------------------------------------------------------------------------
(* Requests and responses *)

NoCall == [arg |-> <<>>, ret |-> <<>>, done |-> FALSE]

NoBody == [json |-> FALSE, id |-> NoId, code |-> NoCode, receipt |-> NoReceipt]

\* a view's response; a webhook's acknowledgement, with the status the
\* addressed payment had when the request came in ("" when there is none)
Served(op, res) == [op |-> op, body |-> NoBody, res |-> res, ack |-> NoCode, was |-> ""]
Acked(op, body, ack, was) == [op |-> op, body |-> body, res |-> "json", ack |-> ack, was |-> was]

----------------------------------------------------------------------------
(* Cart views *)

\* orders.views.cart_add: 404 when the product row is gone
CartAdd(p) ==
    /\ IF p \in deleted
       THEN /\ cart' = cart
            /\ last' = Served("cart_add", "404")
       ELSE IF AddRaises(cart, p)
       THEN /\ cart' = cart
            /\ last' = Served("cart_add", "500")
       ELSE /\ cart' = CartAddLine(cart, p)
            /\ last' = Served("cart_add", "added")
    /\ UNCHANGED <<product_price, vendor_payments, deleted, orders, payments, mpesa_orders,
                   current_payment_index>>

\* orders.views.cart_remove
CartRemove(p) ==
    /\ IF p \in deleted
       THEN /\ cart' = cart
            /\ last' = Served("cart_remove", "404")
       ELSE /\ cart' = CartRemoveLine(cart, p)
            /\ last' = Served("cart_remove", "removed")
    /\ UNCHANGED <<product_price, vendor_payments, deleted, orders, payments, mpesa_orders,
                   current_payment_index>>

Unchanged_cart_view ==
    UNCHANGED <<product_price, vendor_payments, deleted, orders, payments, mpesa_orders,
                current_payment_index>>

\* the quantities a request may carry
Quantities == -1..3

\* orders.views.cart_add_ajax: Http404 is answered by the last except branch
CartAddAjax(p, quantity) ==
    /\ IF p \in deleted \/ (quantity > 0 /\ AddRaises(cart, p))
       THEN /\ cart' = cart
            /\ last' = Served("cart_add_ajax", "400")
       ELSE /\ cart' = CartAddTimes(cart, p, quantity)
            /\ last' = Served("cart_add_ajax", "success")
    /\ Unchanged_cart_view

\* orders.views.cart_update_ajax
CartUpdateAjax(p, quantity) ==
    /\ IF p \in deleted \/ (quantity > QuantityIn(cart, p) /\ AddRaises(cart, p))
       THEN /\ cart' = cart
            /\ last' = Served("cart_update_ajax", "400")
       ELSE /\ cart' = cart_update(cart, p, quantity)
            /\ last' = Served("cart_update_ajax", "success")
    /\ Unchanged_cart_view

\* orders.views.cart_decrement; the response is named after the branch taken
CartDecrement(p) ==
    /\ IF p \in deleted
       THEN /\ cart' = cart
            /\ last' = Served("cart_decrement", "404")
       ELSE /\ cart' = cart_decrement(cart, p)
            /\ last' = Served("cart_decrement",
                              IF ~InCart(cart, p) THEN "absent"
                              ELSE IF QuantityIn(cart, p) > 1 THEN "lowered"
                              ELSE "removed")
    /\ Unchanged_cart_view

\* dashboard.views.product_delete (POST): OrderItem.product cascades
ProductDelete(p) ==
    /\ p \notin deleted
    /\ deleted' = deleted \cup {p}
    /\ orders' = [o \in DOMAIN orders |->
                    [orders[o] EXCEPT !.items = SelectSeq(@, LAMBDA it : it.product # p)]]
    /\ last' = Served("product_delete", "deleted")
    /\ UNCHANGED <<product_price, vendor_payments, cart, payments, mpesa_orders, current_payment_index>>

\* the prices a vendor may set
Prices == {100, 120}

\* dashboard.views.product_edit: the form writes the product row only
ProductEdit(user, p, http, new_price) ==
    /\ IF ~HasBusiness(user)
       THEN /\ product_price' = product_price
            /\ last' = Served("product_edit", "register_business")
       ELSE IF p \in deleted \/ VendorOf[p] # user
       THEN /\ product_price' = product_price
            /\ last' = Served("product_edit", "404")
       ELSE IF http = "POST"
       THEN /\ product_price' = [product_price EXCEPT ![p] = new_price]
            /\ last' = Served("product_edit", "updated")
       ELSE /\ product_price' = product_price
            /\ last' = Served("product_edit", "form")
    /\ UNCHANGED <<vendor_payments, cart, deleted, orders, payments, mpesa_orders,
                   current_payment_index>>

----------------------------------------------------------------------------
(* Checkout *)

PaymentMethods == {"", "pochi_biashara", "mpesa_till", "cash_on_delivery", "bank"}

Unchanged_checkout ==
    UNCHANGED <<product_price, vendor_payments, cart, deleted, orders, payments, mpesa_orders,
                current_payment_index>>

\* handle_pochi_payment
handle_pochi_payment(groups, fail) ==
    /\ orders' = CreateOrders(groups, "pending", "pochi_biashara", fail)
    /\ IF fail.g = 0
       THEN /\ cart' = <<>>
            /\ last' = Served("checkout", "pochi_instructions")
       ELSE /\ cart' = cart
            /\ last' = Served("checkout", "failed_to_process")
    /\ UNCHANGED <<product_price, vendor_payments, deleted, payments, mpesa_orders, current_payment_index>>

\* faulty variant: the cart is cleared before the orders are created
handle_mpesa_payment_clear_first(groups, fail) ==
    /\ cart' = <<>>
    /\ orders' = CreateOrders(groups, "pending", "mpesa_pending", fail)
    /\ IF fail.g = 0
       THEN /\ mpesa_orders' = NewIds(groups)
            /\ current_payment_index' = 0
            /\ last' = Served("checkout", "redirect_process_next")
       ELSE /\ UNCHANGED <<mpesa_orders, current_payment_index>>
            /\ last' = Served("checkout", "failed_to_process")
    /\ UNCHANGED <<product_price, vendor_payments, deleted, payments>>

\* handle_mpesa_payment
handle_mpesa_payment(groups, fail) ==
    /\ orders' = CreateOrders(groups, "pending", "mpesa_pending", fail)
    /\ IF fail.g = 0
       THEN /\ mpesa_orders' = NewIds(groups)
            /\ current_payment_index' = 0
            /\ cart' = <<>>
            /\ last' = Served("checkout", "redirect_process_next")
       ELSE /\ UNCHANGED <<cart, mpesa_orders, current_payment_index>>
            /\ last' = Served("checkout", "failed_to_process")
    /\ UNCHANGED <<product_price, vendor_payments, deleted, payments>>

\* faulty variant: the cash-on-delivery orders enter the push-payment flow
handle_cod_payment_checkpoint(groups, fail) ==
    /\ orders' = CreateOrders(groups, "processing", "cash_on_delivery", fail)
    /\ IF fail.g = 0
       THEN /\ cart' = <<>>
            /\ mpesa_orders' = NewIds(groups)
            /\ current_payment_index' = 0
            /\ last' = Served("checkout", "placed_failed_to_process")
       ELSE /\ cart' = cart
            /\ last' = Served("checkout", "failed_to_process")
            /\ UNCHANGED <<mpesa_orders, current_payment_index>>
    /\ UNCHANGED <<product_price, vendor_payments, deleted, payments>>

\* handle_cod_payment.  After the commit and cart.clear() the view calls
\* redirect('payments:order_success', ...), a route payments/urls.py does
\* not have: NoReverseMatch is raised inside the try block, and the except
\* branch answers with the message of a failed order.
handle_cod_payment(groups, fail) ==
    /\ orders' = CreateOrders(groups, "processing", "cash_on_delivery", fail)
    /\ IF fail.g = 0
       THEN /\ cart' = <<>>
            /\ last' = Served("checkout", "placed_failed_to_process")
       ELSE /\ cart' = cart
            /\ last' = Served("checkout", "failed_to_process")
    /\ UNCHANGED <<product_price, vendor_payments, deleted, payments, mpesa_orders, current_payment_index>>

\* payments.views.checkout; inputs a branch does not read are fixed, so
\* that one request is one step
Checkout(http, payment_method, phone, fail) ==
    LET vendor_items == group_cart_by_vendor(cart, deleted)
        Ignored(h, m, ph) ==
            /\ (h => http = "GET")
            /\ (m => payment_method = "")
            /\ (ph => phone = <<>>)
            /\ fail = NoFail
    IN
    IF CartLen(cart) = 0
    THEN /\ Ignored(TRUE, TRUE, TRUE)
         /\ Unchanged_checkout /\ last' = Served("checkout", "cart_empty")
    ELSE IF vendor_items = <<>>
    THEN /\ Ignored(TRUE, TRUE, TRUE)
         /\ Unchanged_checkout /\ last' = Served("checkout", "invalid_items")
    ELSE IF http = "GET"
    THEN /\ Ignored(TRUE, TRUE, TRUE)
         /\ Unchanged_checkout /\ last' = Served("checkout", "form")
    ELSE IF payment_method = ""
    THEN /\ Ignored(FALSE, TRUE, TRUE)
         /\ Unchanged_checkout /\ last' = Served("checkout", "select_method")
    ELSE IF phone = <<>>
    THEN /\ Ignored(FALSE, FALSE, TRUE)
         /\ Unchanged_checkout /\ last' = Served("checkout", "phone_required")
    ELSE /\ fail \in FailPoints(vendor_items)
         /\ IF payment_method = "pochi_biashara"
            THEN handle_pochi_payment(vendor_items, fail)
            ELSE IF payment_method \in {"mpesa_till", "mpesa_paybill"}
            THEN handle_mpesa_payment(vendor_items, fail)
            ELSE IF payment_method = "cash_on_delivery"
            THEN handle_cod_payment(vendor_items, fail)
            ELSE /\ fail = NoFail
                 /\ Unchanged_checkout /\ last' = Served("checkout", "invalid_method")

----------------------------------------------------------------------------
(* The gateway client.  An outcome is what the gateway does with one        *)
(* request: "accepted" (HTTP 200, ResponseCode "0"), "declined" (HTTP 200,  *)
(* another ResponseCode), or a failure of the token fetch or the transport. *)

GatewayOutcomes == {"accepted", "declined", "no_token", "http_error",
                    "connection_error", "timeout"}

\* MpesaClient.stk_push; fresh is the CheckoutRequestID the gateway issues
stk_push(phone_number, outcome, fresh) ==
    IF format_phone_number(phone_number) = <<>>
    THEN [success |-> FALSE, ResponseCode |-> "", CheckoutRequestID |-> NoId]
    ELSE IF outcome = "accepted"
    THEN [success |-> TRUE, ResponseCode |-> "0", CheckoutRequestID |-> fresh]
    ELSE IF outcome = "declined"
    THEN [success |-> TRUE, ResponseCode |-> "1", CheckoutRequestID |-> NoId]
    ELSE [success |-> FALSE, ResponseCode |-> "", CheckoutRequestID |-> NoId]

----------------------------------------------------------------------------
(* The sequential flow *)

NewPayment(order_id, order) ==
    [order |-> order_id, amount |-> order.total, status |-> "PENDING",
     result_code |-> NoCode, result_description |-> "",
     mpesa_receipt_number |-> NoReceipt]

Unchanged_flow ==
    UNCHANGED <<product_price, vendor_payments, cart, deleted, orders, payments, mpesa_orders,
                current_payment_index>>

\* faulty variant: a request the gateway rejects moves the checkpoint on
process_single_vendor_payment_skip_rejected(order_id, phone, current_index, outcome) ==
    LET formatted_phone == format_phone_number(phone)
        response == stk_push(formatted_phone, outcome, Len(payments) + 1)
    IN  IF formatted_phone = <<>>
        THEN Unchanged_flow /\ last' = Served("process_next", "invalid_phone")
        ELSE IF response.success /\ response.ResponseCode = "0"
        THEN /\ payments' = Append(payments, NewPayment(order_id, orders[order_id]))
             /\ orders' = [orders EXCEPT
                    ![order_id].checkout_request_id = response.CheckoutRequestID,
                    ![order_id].payment_method = "mpesa_till"]
             /\ current_payment_index' = current_index + 1
             /\ last' = Served("process_next", "waiting")
             /\ UNCHANGED <<product_price, vendor_payments, cart, deleted, mpesa_orders>>
        ELSE /\ current_payment_index' = current_index + 1
             /\ last' = Served("process_next", "payment_failed")
             /\ UNCHANGED <<product_price, vendor_payments, cart, deleted, orders, payments, mpesa_orders>>

\* faulty variant: the order of a rejected request is deleted, as the
\* single-order process_mpesa_payment does
process_single_vendor_payment_delete_order(order_id, phone, current_index, outcome) ==
    LET formatted_phone == format_phone_number(phone)
        response == stk_push(formatted_phone, outcome, Len(payments) + 1)
    IN  IF formatted_phone = <<>>
        THEN Unchanged_flow /\ last' = Served("process_next", "invalid_phone")
        ELSE IF response.success /\ response.ResponseCode = "0"
        THEN /\ payments' = Append(payments, NewPayment(order_id, orders[order_id]))
             /\ orders' = [orders EXCEPT
                    ![order_id].checkout_request_id = response.CheckoutRequestID,
                    ![order_id].payment_method = "mpesa_till"]
             /\ current_payment_index' = current_index + 1
             /\ last' = Served("process_next", "waiting")
             /\ UNCHANGED <<product_price, vendor_payments, cart, deleted, mpesa_orders>>
        ELSE /\ orders' = SubSeq(orders, 1, order_id - 1) \o
                            SubSeq(orders, order_id + 1, Len(orders))
             /\ last' = Served("process_next", "payment_failed")
             /\ UNCHANGED <<product_price, vendor_payments, cart, deleted, payments, mpesa_orders,
                            current_payment_index>>

\* faulty variant: a payment is recorded for a request the gateway declined
process_single_vendor_payment_record_declined(order_id, phone, current_index, outcome) ==
    LET formatted_phone == format_phone_number(phone)
        response == stk_push(formatted_phone, outcome, Len(payments) + 1)
    IN  IF formatted_phone = <<>>
        THEN Unchanged_flow /\ last' = Served("process_next", "invalid_phone")
        ELSE IF response.success
        THEN /\ payments' = Append(payments, NewPayment(order_id, orders[order_id]))
             /\ orders' = [orders EXCEPT
                    ![order_id].checkout_request_id = Len(payments) + 1,
                    ![order_id].payment_method = "mpesa_till"]
             /\ current_payment_index' = current_index + 1
             /\ last' = Served("process_next",
                               IF response.ResponseCode = "0" THEN "waiting"
                               ELSE "payment_failed")
             /\ UNCHANGED <<product_price, vendor_payments, cart, deleted, mpesa_orders>>
        ELSE Unchanged_flow /\ last' = Served("process_next", "payment_failed")

\* process_single_vendor_payment
process_single_vendor_payment(order_id, phone, current_index, outcome) ==
    LET formatted_phone == format_phone_number(phone)
        response == stk_push(formatted_phone, outcome, Len(payments) + 1)
    IN  IF formatted_phone = <<>>
        THEN Unchanged_flow /\ last' = Served("process_next", "invalid_phone")
        ELSE IF response.success /\ response.ResponseCode = "0"
        THEN /\ payments' = Append(payments, NewPayment(order_id, orders[order_id]))
             /\ orders' = [orders EXCEPT
                    ![order_id].checkout_request_id = response.CheckoutRequestID,
                    ![order_id].payment_method = "mpesa_till"]
             /\ current_payment_index' = current_index + 1
             /\ last' = Served("process_next", "waiting")
             /\ UNCHANGED <<product_price, vendor_payments, cart, deleted, mpesa_orders>>
        ELSE Unchanged_flow /\ last' = Served("process_next", "payment_failed")

\* request.session.get('current_payment_index', 0)
CurrentIndex == IF current_payment_index = NoIndex THEN 0 ELSE current_payment_index

\* process_next_vendor_payment
ProcessNextVendorPayment(http, phone, outcome) ==
    IF mpesa_orders = <<>> \/ CurrentIndex >= Len(mpesa_orders)
    THEN /\ mpesa_orders' = <<>>
         /\ current_payment_index' = NoIndex
         /\ last' = Served("process_next", "all_completed")
         /\ UNCHANGED <<product_price, vendor_payments, cart, deleted, orders, payments>>
    ELSE LET order_id == mpesa_orders[CurrentIndex + 1] IN
         IF orders[order_id].items = <<>>
         THEN \* order.items.first() is None: the view raises
              Unchanged_flow /\ last' = Served("process_next", "error_500")
         ELSE IF http = "GET"
         THEN Unchanged_flow /\ last' = Served("process_next", "vendor_payment_page")
         ELSE IF phone = <<>>
         THEN Unchanged_flow /\ last' = Served("process_next", "phone_required")
         ELSE process_single_vendor_payment(order_id, phone, CurrentIndex, outcome)

----------------------------------------------------------------------------
(* The webhooks, as functions of the state they read and write *)

ResultDesc(code) ==
    IF code = 0 THEN "The service request is processed successfully."
    ELSE "Request cancelled by user"

CancelledByUser == 1032

\* the bodies the webhooks are sent: not JSON, JSON without a
\* CheckoutRequestID, or a result for an id (issued or never issued)
Bodies(known) ==
    {NoBody, [json |-> TRUE, id |-> NoId, code |-> 0, receipt |-> NoReceipt]} \cup
    {[json |-> TRUE, id |-> i, code |-> 0, receipt |-> r] :
        i \in 1..(known + 1), r \in {NoReceipt, "RCPT"}} \cup
    {[json |-> TRUE, id |-> i, code |-> CancelledByUser, receipt |-> NoReceipt] :
        i \in 1..(known + 1)}

State == [cart |-> cart, orders |-> orders, payments |-> payments,
          vendor_payments |-> vendor_payments,
          current_payment_index |-> current_payment_index]

\* faulty variant: the order is marked paid but keeps its status
mark_order_paid_only(st, payment) ==
    [st EXCEPT !.orders[payment.order].paid = TRUE,
               !.orders[payment.order].payment_reference = payment.mpesa_receipt_number,
               !.cart = <<>>]

\* faulty variant: every success callback also moves the checkpoint on
mark_order_paid_and_advance(st, payment) ==
    [st EXCEPT !.orders[payment.order].paid = TRUE,
               !.orders[payment.order].payment_reference = payment.mpesa_receipt_number,
               !.orders[payment.order].status = "processing",
               !.cart = <<>>,
               !.current_payment_index = @ + 1]

\* faulty variant: the total is computed again from the products' prices
mark_order_paid_live_total(st, payment) ==
    LET items == st.orders[payment.order].items
        Live[i \in 0..Len(items)] ==
            IF i = 0 THEN 0
            ELSE Live[i - 1] + product_price[items[i].product] * items[i].quantity
    IN  [st EXCEPT !.orders[payment.order].paid = TRUE,
                   !.orders[payment.order].payment_reference = payment.mpesa_receipt_number,
                   !.orders[payment.order].status = "processing",
                   !.orders[payment.order].total = Live[Len(items)],
                   !.cart = <<>>]

\* faulty variant: every order still pending is marked paid with this one
mark_order_paid_all_pending(st, payment) ==
    [st EXCEPT !.orders = [o \in DOMAIN st.orders |->
                              IF o = payment.order \/ st.orders[o].status = "pending"
                              THEN [st.orders[o] EXCEPT
                                       !.paid = TRUE,
                                       !.payment_reference = payment.mpesa_receipt_number,
                                       !.status = "processing"]
                              ELSE st.orders[o]],
               !.cart = <<>>]

\* mpesa_callback, the success branch: the order is marked paid and the
\* cart is removed from the session the order was placed in
mark_order_paid(st, payment) ==
    [st EXCEPT !.orders[payment.order].paid = TRUE,
               !.orders[payment.order].payment_reference = payment.mpesa_receipt_number,
               !.orders[payment.order].status = "processing",
               !.cart = <<>>]

\* mpesa_callback: the state after the call and the ResultCode answered
mpesa_callback(st, body) ==
    IF ~body.json
    THEN [st |-> st, ack |-> 1]
    ELSE IF body.id = NoId
    THEN [st |-> st, ack |-> 1]
    ELSE IF body.id \notin DOMAIN st.payments
    THEN [st |-> st, ack |-> 1]
    ELSE LET payment == [st.payments[body.id] EXCEPT
                            !.result_code = body.code,
                            !.result_description = ResultDesc(body.code)]
         IN  IF body.code = 0
             THEN LET completed == [payment EXCEPT
                                      !.status = "COMPLETED",
                                      !.mpesa_receipt_number =
                                          IF body.receipt # NoReceipt THEN body.receipt ELSE @]
                  IN  [st |-> [mark_order_paid(st, completed) EXCEPT
                                  !.payments[body.id] = completed],
                       ack |-> 0]
             ELSE [st |-> [st EXCEPT !.payments[body.id] =
                                        [payment EXCEPT !.status = "FAILED"]],
                   ack |-> 0]

\* mpesa_timeout
mpesa_timeout(st, body) ==
    IF ~body.json
    THEN [st |-> st, ack |-> 1]
    ELSE IF body.id # NoId /\ body.id \in DOMAIN st.payments
    THEN [st |-> [st EXCEPT !.payments[body.id].status = "FAILED",
                            !.payments[body.id].result_description =
                                "Transaction timed out"],
          ack |-> 0]
    ELSE [st |-> st, ack |-> 0]

Install(st) ==
    /\ cart' = st.cart
    /\ orders' = st.orders
    /\ payments' = st.payments
    /\ vendor_payments' = st.vendor_payments
    /\ current_payment_index' = st.current_payment_index
    /\ UNCHANGED <<deleted, product_price, mpesa_orders>>

StatusOf(id) == IF id \in DOMAIN payments THEN payments[id].status ELSE ""

MpesaCallback(body) ==
    LET r == mpesa_callback(State, body) IN
    /\ Install(r.st)
    /\ last' = Acked("mpesa_callback", body, r.ack, StatusOf(body.id))

MpesaTimeout(body) ==
    LET r == mpesa_timeout(State, body) IN
    /\ Install(r.st)
    /\ last' = Acked("mpesa_timeout", body, r.ack, StatusOf(body.id))

----------------------------------------------------------------------------
(* Settlement by hand: the vendor's and the customer's confirmation *)

\* faulty variant: any vendor passes for a vendor of the order
HasItemsIn_any_vendor(user, order) == TRUE

\* order.items.filter(product__business=business).exists()
HasItemsIn(user, order) ==
    \E i \in 1..Len(order.items) : VendorOf[order.items[i].product] = user

Actions == {"confirm", "reject", ""}

Unchanged_confirm ==
    UNCHANGED <<product_price, vendor_payments, cart, deleted, orders, payments, mpesa_orders,
                current_payment_index>>

\* faulty variant: a rejection cancels the order
ConfirmVendorPayment_reject_cancels(user, order_id, http, action) ==
    IF http # "POST"
    THEN Unchanged_confirm /\ last' = Served("confirm_vendor_payment", "redirect")
    ELSE IF ~HasBusiness(user)
    THEN Unchanged_confirm /\ last' = Served("confirm_vendor_payment", "no_business")
    ELSE IF order_id \notin DOMAIN orders
    THEN Unchanged_confirm /\ last' = Served("confirm_vendor_payment", "404")
    ELSE IF ~HasItemsIn(user, orders[order_id])
    THEN Unchanged_confirm /\ last' = Served("confirm_vendor_payment", "no_permission")
    ELSE IF action = "confirm"
    THEN /\ orders' = [orders EXCEPT ![order_id].paid = TRUE,
                                     ![order_id].payment_confirmed_by = user,
                                     ![order_id].payment_confirmed_at = "now",
                                     ![order_id].status = "processing"]
         /\ last' = Served("confirm_vendor_payment", "confirmed")
         /\ UNCHANGED <<product_price, vendor_payments, cart, deleted, payments, mpesa_orders,
                        current_payment_index>>
    ELSE IF action = "reject"
    THEN /\ orders' = [orders EXCEPT ![order_id].paid = FALSE,
                                     ![order_id].status = "cancelled"]
         /\ last' = Served("confirm_vendor_payment", "rejected")
         /\ UNCHANGED <<product_price, vendor_payments, cart, deleted, payments, mpesa_orders,
                        current_payment_index>>
    ELSE Unchanged_confirm /\ last' = Served("confirm_vendor_payment", "redirect")

\* payments.views.confirm_vendor_payment (dashboard.views has the same
\* checks and writes).  'reject' assigns order.payment_notes, which is not
\* a field of Order: order.save() stores nothing new.
ConfirmVendorPayment(user, order_id, http, action) ==
    IF http # "POST"
    THEN Unchanged_confirm /\ last' = Served("confirm_vendor_payment", "redirect")
    ELSE IF ~HasBusiness(user)
    THEN Unchanged_confirm /\ last' = Served("confirm_vendor_payment", "no_business")
    ELSE IF order_id \notin DOMAIN orders
    THEN Unchanged_confirm /\ last' = Served("confirm_vendor_payment", "404")
    ELSE IF ~HasItemsIn(user, orders[order_id])
    THEN Unchanged_confirm /\ last' = Served("confirm_vendor_payment", "no_permission")
    ELSE IF action = "confirm"
    THEN /\ orders' = [orders EXCEPT ![order_id].paid = TRUE,
                                     ![order_id].payment_confirmed_by = user,
                                     ![order_id].payment_confirmed_at = "now",
                                     ![order_id].status = "processing"]
         /\ last' = Served("confirm_vendor_payment", "confirmed")
         /\ UNCHANGED <<product_price, vendor_payments, cart, deleted, payments, mpesa_orders,
                        current_payment_index>>
    ELSE IF action = "reject"
    THEN Unchanged_confirm /\ last' = Served("confirm_vendor_payment", "rejected")
    ELSE Unchanged_confirm /\ last' = Served("confirm_vendor_payment", "redirect")

\* payments.views.confirm_pochi_payment: every order is the customer's, so
\* get_object_or_404(Order, id=order_id, customer=request.user) finds the
\* order exactly for the customer; Http404 is caught by the except branch
ConfirmPochiPayment(user, order_id, http) ==
    IF http # "POST"
    THEN Unchanged_confirm /\ last' = Served("confirm_pochi_payment", "invalid_method")
    ELSE IF order_id \notin DOMAIN orders \/ user # Customer
    THEN Unchanged_confirm /\ last' = Served("confirm_pochi_payment", "error")
    ELSE /\ orders' = [orders EXCEPT ![order_id].paid = TRUE,
                                     ![order_id].transaction_code = "MANUAL"]
         /\ last' = Served("confirm_pochi_payment", "confirmed")
         /\ UNCHANGED <<product_price, vendor_payments, cart, deleted, payments, mpesa_orders,
                        current_payment_index>>

----------------------------------------------------------------------------
(* The vendor's status update *)

StatusChoices == {"pending", "processing", "completed", "cancelled"}

\* data.get('status') when the body has no status
NoStatus == "None"

\* the values a vendor may submit: the choices, a word that is not a
\* choice, the empty string, or none at all
SubmittedStatuses == StatusChoices \cup {"shipped", "", NoStatus}

\* faulty variant: the status update also marks the order paid
UpdateOrderStatus_marks_paid(user, order_id, http, new_status) ==
    IF http # "POST"
    THEN Unchanged_confirm /\ last' = Served("update_order_status", "405")
    ELSE IF ~HasBusiness(user)
    THEN Unchanged_confirm /\ last' = Served("update_order_status", "no_business")
    ELSE IF order_id \notin DOMAIN orders
    THEN Unchanged_confirm /\ last' = Served("update_order_status", "404")
    ELSE IF ~HasItemsIn(user, orders[order_id])
    THEN Unchanged_confirm /\ last' = Served("update_order_status", "no_permission")
    ELSE IF new_status = NoStatus
    THEN Unchanged_confirm /\ last' = Served("update_order_status", "500")
    ELSE /\ orders' = [orders EXCEPT ![order_id].status = new_status,
                                     ![order_id].paid = TRUE]
         /\ last' = Served("update_order_status", "updated")
         /\ UNCHANGED <<product_price, vendor_payments, cart, deleted, payments,
                        mpesa_orders, current_payment_index>>

\* dashboard.views.update_order_status: order.status = new_status is saved
\* as submitted; a missing status is NULL, which the column refuses, and the
\* last except branch answers 500
UpdateOrderStatus(user, order_id, http, new_status) ==
    IF http # "POST"
    THEN Unchanged_confirm /\ last' = Served("update_order_status", "405")
    ELSE IF ~HasBusiness(user)
    THEN Unchanged_confirm /\ last' = Served("update_order_status", "no_business")
    ELSE IF order_id \notin DOMAIN orders
    THEN Unchanged_confirm /\ last' = Served("update_order_status", "404")
    ELSE IF ~HasItemsIn(user, orders[order_id])
    THEN Unchanged_confirm /\ last' = Served("update_order_status", "no_permission")
    ELSE IF new_status = NoStatus
    THEN Unchanged_confirm /\ last' = Served("update_order_status", "500")
    ELSE /\ orders' = [orders EXCEPT ![order_id].status = new_status]
         /\ last' = Served("update_order_status", "updated")
         /\ UNCHANGED <<product_price, vendor_payments, cart, deleted, payments,
                        mpesa_orders, current_payment_index>>

----------------------------------------------------------------------------
(* The status poll *)

\* what the gateway answers a status query: the request was paid, waits for
\* the PIN, was cancelled, or the token fetch or the transport failed
QueryOutcomes == {"paid", "awaiting_pin", "cancelled", "no_token", "http_error"}

\* MpesaClient.query_status
query_status(outcome) ==
    IF outcome = "paid" THEN [success |-> TRUE, ResultCode |-> "0"]
    ELSE IF outcome = "awaiting_pin" THEN [success |-> TRUE, ResultCode |-> "1037"]
    ELSE IF outcome = "cancelled" THEN [success |-> TRUE, ResultCode |-> "1032"]
    ELSE [success |-> FALSE, ResultCode |-> ""]

\* the answer to a poll: the status reported, the order whose success page
\* the redirect_url names (NoId without one), and whether the gateway was asked
Polled(id, res, redirect_url, queried) ==
    [op |-> "payment_status", body |-> NoBody, res |-> res, ack |-> NoCode, was |-> "",
     id |-> id, redirect_url |-> redirect_url, queried |-> queried]

\* faulty variant: the redirect is given for every payment that has an order
payment_status_redirect_always(id, outcome) ==
    IF id = NoId
    THEN Polled(id, "400", NoId, FALSE)
    ELSE IF id \in DOMAIN payments
    THEN Polled(id, payments[id].status, payments[id].order, FALSE)
    ELSE LET status_result == query_status(outcome) IN
         Polled(id,
                IF status_result.ResultCode = "0" THEN "COMPLETED"
                ELSE IF status_result.ResultCode = "1037" THEN "PENDING"
                ELSE "FAILED",
                NoId, TRUE)

\* the response of payments.views.payment_status
payment_status(id, outcome) ==
    IF id = NoId
    THEN Polled(id, "400", NoId, FALSE)
    ELSE IF id \in DOMAIN payments
    THEN LET payment == payments[id] IN
         Polled(id, payment.status,
                IF payment.status = "COMPLETED" /\ payment.order # NoId
                THEN payment.order ELSE NoId,
                FALSE)
    ELSE LET status_result == query_status(outcome) IN
         Polled(id,
                IF status_result.ResultCode = "0" THEN "COMPLETED"
                ELSE IF status_result.ResultCode = "1037" THEN "PENDING"
                ELSE "FAILED",
                NoId, TRUE)

\* payments.views.payment_status: the view writes nothing
PaymentStatus(id, outcome) ==
    /\ last' = payment_status(id, outcome)
    /\ UNCHANGED <<product_price, vendor_payments, cart, deleted, orders, payments,
                   mpesa_orders, current_payment_index>>

----------------------------------------------------------------------------
(* Specification *)

Init ==
    /\ cart = <<>>
    /\ deleted = {}
    /\ product_price = PriceOf
    /\ orders = <<>>
    /\ payments = <<>>
    /\ vendor_payments = <<>>
    /\ mpesa_orders = <<>>
    /\ current_payment_index = NoIndex
    /\ last = Served("none", "none")
    /\ steps = 0
    /\ call = NoCall
    /\ inflight = <<>>

AllFailPoints == {[g |-> g, i |-> i] : g \in 0..2, i \in 0..2}
FlowProducts == {1, 3}

\* a GET reads neither the phone nor the gateway; the gateway is reached
\* only with a phone number that normalises
Pay ==
    \/ ProcessNextVendorPayment("GET", <<>>, "accepted")
    \/ \E phone \in Phones :
          \E outcome \in (IF phone = LocalPhone THEN GatewayOutcomes ELSE {"accepted"}) :
              ProcessNextVendorPayment("POST", phone, outcome)

Callback == \E body \in Bodies(Len(payments)) : MpesaCallback(body)

Timeout ==
    \E body \in Bodies(Len(payments)) :
        body.code = 0 /\ body.receipt = NoReceipt /\ MpesaTimeout(body)

\* one more request is served, up to the bound
Tick(bound) == steps < bound /\ steps' = steps + 1 /\ UNCHANGED <<call, inflight>>

\* the payment flow: carts of one product per vendor, checked out by M-Pesa
Next ==
    \/ Tick(MaxSteps) /\ \E p \in FlowProducts : CartAdd(p)
    \/ Tick(MaxSteps) /\ Checkout("POST", "mpesa_till", LocalPhone, NoFail)
    \/ Tick(MaxSteps) /\ Pay
    \/ Tick(MaxSteps) /\ Callback
    \/ Tick(MaxSteps) /\ Timeout

Spec == Init /\ [][Next]_vars

\* the checkout: every cart, every settlement method, every point of failure
NextCheckout ==
    \/ Tick(MaxCheckoutSteps) /\ \E p \in Products : CartAdd(p)
    \/ Tick(MaxCheckoutSteps) /\ \E p \in Products : CartRemove(p)
    \/ Tick(MaxCheckoutSteps) /\ \E p \in Products : ProductDelete(p)
    \/ Tick(MaxCheckoutSteps) /\ Checkout("GET", "", <<>>, NoFail)
    \/ Tick(MaxCheckoutSteps) /\ \E m \in PaymentMethods, phone \in Phones :
          \E fail \in (IF m \in {"", "bank"} \/ phone = <<>> THEN {NoFail} ELSE AllFailPoints) :
              Checkout("POST", m, phone, fail)

SpecCheckout == Init /\ [][NextCheckout]_vars

\* the orders a confirmation may name: those that exist and one that does not
OrderIds == 1..(Len(orders) + 1)

\* a request whose method is not POST reads nothing else; a user without a
\* Business is turned away before the order and the action are read
ConfirmByVendor ==
    \/ ConfirmVendorPayment(Customer, 1, "GET", "")
    \/ ConfirmVendorPayment(Customer, 1, "POST", "")
    \/ \E user \in Users \ {Customer}, order_id \in OrderIds, action \in Actions :
          ConfirmVendorPayment(user, order_id, "POST", action)

ConfirmByCustomer ==
    \/ ConfirmPochiPayment(Customer, 1, "GET")
    \/ \E user \in Users, order_id \in OrderIds :
          ConfirmPochiPayment(user, order_id, "POST")

SettlementMethods == {"pochi_biashara", "mpesa_till", "cash_on_delivery"}

\* settlement: the three checkout paths, the payment flow, and the
\* confirmations by hand
NextSettle ==
    \/ Tick(MaxSettleSteps) /\ \E p \in FlowProducts : CartAdd(p)
    \/ Tick(MaxSettleSteps) /\ \E m \in SettlementMethods :
                                  Checkout("POST", m, LocalPhone, NoFail)
    \/ Tick(MaxSettleSteps) /\ Pay
    \/ Tick(MaxSettleSteps) /\ Callback
    \/ Tick(MaxSettleSteps) /\ Timeout
    \/ Tick(MaxSettleSteps) /\ ConfirmByVendor
    \/ Tick(MaxSettleSteps) /\ ConfirmByCustomer

SpecSettle == Init /\ [][NextSettle]_vars

\* the cart: every view that writes it, and a checkout, which clears it
NextCart ==
    \/ Tick(MaxCartSteps) /\ \E p \in Products : CartAdd(p)
    \/ Tick(MaxCartSteps) /\ \E p \in Products, q \in Quantities : CartAddAjax(p, q)
    \/ Tick(MaxCartSteps) /\ \E p \in Products, q \in Quantities : CartUpdateAjax(p, q)
    \/ Tick(MaxCartSteps) /\ \E p \in Products : CartDecrement(p)
    \/ Tick(MaxCartSteps) /\ \E p \in Products : CartRemove(p)
    \/ Tick(MaxCartSteps) /\ \E p \in Products : ProductDelete(p)
    \/ Tick(MaxCartSteps) /\ Checkout("POST", "cash_on_delivery", LocalPhone, NoFail)

SpecCart == Init /\ [][NextCart]_vars

\* a request that is turned away reads neither the method nor the price
EditPrice ==
    \/ ProductEdit(Customer, 1, "GET", 100)
    \/ \E p \in Products : ProductEdit(VendorOf[p], p, "GET", 100)
    \/ \E p \in Products, new_price \in Prices : ProductEdit(VendorOf[p], p, "POST", new_price)
    \/ \E p \in Products :
          \E user \in Users \ {Customer, VendorOf[p]} : ProductEdit(user, p, "GET", 100)

\* prices: the cart, the vendors' price changes, and the checkout
NextPrice ==
    \/ Tick(MaxPriceSteps) /\ \E p \in Products : CartAdd(p)
    \/ Tick(MaxPriceSteps) /\ EditPrice
    \/ Tick(MaxPriceSteps) /\ \E m \in SettlementMethods :
                                 Checkout("POST", m, LocalPhone, NoFail)

SpecPrice == Init /\ [][NextPrice]_vars

\* a request that is turned away reads no further input
UpdateStatus ==
    \/ UpdateOrderStatus(Customer, 1, "GET", "pending")
    \/ UpdateOrderStatus(Customer, 1, "POST", "pending")
    \/ \E user \in Users \ {Customer}, order_id \in OrderIds, new_status \in SubmittedStatuses :
          /\ (order_id \notin DOMAIN orders \/ ~HasItemsIn(user, orders[order_id]))
                => new_status = "pending"
          /\ UpdateOrderStatus(user, order_id, "POST", new_status)

\* the gateway is asked only about an id that has no payment
Poll ==
    \/ \E id \in {NoId} \cup DOMAIN payments : PaymentStatus(id, "paid")
    \/ \E outcome \in QueryOutcomes : PaymentStatus(Len(payments) + 1, outcome)

OrderMethods == {"pochi_biashara", "mpesa_till"}

\* the life of an order: every request that reads or writes one
NextOrder ==
    \/ Tick(MaxOrderSteps) /\ \E p \in FlowProducts : CartAdd(p)
    \/ Tick(MaxOrderSteps) /\ \E m \in OrderMethods : Checkout("POST", m, LocalPhone, NoFail)
    \/ Tick(MaxOrderSteps) /\ Pay
    \/ Tick(MaxOrderSteps) /\ Callback
    \/ Tick(MaxOrderSteps) /\ Timeout
    \/ Tick(MaxOrderSteps) /\ ConfirmByVendor
    \/ Tick(MaxOrderSteps) /\ ConfirmByCustomer
    \/ Tick(MaxOrderSteps) /\ UpdateStatus
    \/ Tick(MaxOrderSteps) /\ Poll
    \/ Tick(MaxOrderSteps) /\ EditPrice

SpecOrder == Init /\ [][NextOrder]_vars

\* the grouping: carts with lines of deleted products, and the one product
\* that has no business
NextGroup ==
    \/ Tick(MaxGroupSteps) /\ \E p \in Products \cup Vendorless : CartAdd(p)
    \/ Tick(MaxGroupSteps) /\ \E p \in Products : CartRemove(p)
    \/ Tick(MaxGroupSteps) /\ \E p \in Products : ProductDelete(p)
    \/ Tick(MaxGroupSteps) /\ Checkout("GET", "", <<>>, NoFail)
    \/ Tick(MaxGroupSteps) /\ \E m \in SettlementMethods :
                                 Checkout("POST", m, LocalPhone, NoFail)

SpecGroup == Init /\ [][NextGroup]_vars

\* format_phone_number on its own: the input is drawn at the start
InitPhone ==
    /\ cart = <<>>
    /\ deleted = {}
    /\ product_price = PriceOf
    /\ orders = <<>>
    /\ payments = <<>>
    /\ vendor_payments = <<>>
    /\ mpesa_orders = <<>>
    /\ current_payment_index = NoIndex
    /\ last = Served("none", "none")
    /\ steps = 0
    /\ call \in {[arg |-> phone, ret |-> <<>>, done |-> FALSE] : phone \in PhoneInputs}
    /\ inflight = <<>>

FormatPhone ==
    /\ ~call.done
    /\ call' = [call EXCEPT !.ret = format_phone_number(call.arg), !.done = TRUE]
    /\ UNCHANGED <<cart, deleted, product_price, orders, payments, vendor_payments,
                   mpesa_orders, current_payment_index, last, steps, inflight>>

NextPhone == FormatPhone

SpecPhone == InitPhone /\ [][NextPhone]_vars

----------------------------------------------------------------------------
(* Properties of the sequential flow *)

Terminal == {"COMPLETED", "FAILED", "CANCELLED"}

Range(f) == {f[i] : i \in DOMAIN f}

PendingFor(ids) ==
    {i \in DOMAIN payments : payments[i].status = "PENDING" /\ payments[i].order \in ids}

\* C1: at most one payment of the orders of a checkout attempt is PENDING,
\* so no request for the next order goes out while one is outstanding.
C1_OneOutstandingRequest == Cardinality(PendingFor(Range(mpesa_orders))) <= 1

\* C2: the checkpoint index moves forward only when a payment of the order
\* it pointed at is already in a terminal state.
C2_AdvanceOnlyAfterTerminal ==
    [][(/\ mpesa_orders # <<>>
        /\ mpesa_orders' = mpesa_orders
        /\ current_payment_index' = CurrentIndex + 1)
       => \E i \in DOMAIN payments :
             /\ payments[i].order = mpesa_orders[CurrentIndex + 1]
             /\ payments[i].status \in Terminal]_vars

----------------------------------------------------------------------------
(* Properties of the callback *)

\* C3: delivering a callback body a second time leaves the payments, the
\* orders, the cart and the checkpoint index as the first delivery left
\* them, and is answered the same.
C3_CallbackIdempotent ==
    \A body \in Bodies(Len(payments)) :
        mpesa_callback(mpesa_callback(State, body).st, body) = mpesa_callback(State, body)

\* a success callback delivered to a payment that a callback had completed
C3_Witness ==
    /\ last.op = "mpesa_callback"
    /\ last.ack = 0
    /\ last.body.code = 0
    /\ last.body.receipt = "RCPT"
    /\ last.was = "COMPLETED"
    /\ payments[last.body.id].status = "COMPLETED"
    /\ payments[last.body.id].mpesa_receipt_number = "RCPT"

\* C4: a payment in a terminal state is never written again.
C4_TerminalIsFinal ==
    [][\A i \in DOMAIN payments :
          payments[i].status \in Terminal => payments'[i] = payments[i]]_vars

\* C8: the callback webhook answers every request with ResultCode 0.
C8_AlwaysAcknowledged == last.op = "mpesa_callback" => last.ack = 0

\* the payment already holds the result this body carries
Applied(body) ==
    /\ body.json
    /\ body.id \in DOMAIN payments
    /\ payments[body.id].result_code = body.code
    /\ payments[body.id].result_description = ResultDesc(body.code)
    /\ IF body.code = 0
       THEN /\ payments[body.id].status = "COMPLETED"
            /\ body.receipt # NoReceipt
            /\ payments[body.id].mpesa_receipt_number = body.receipt
       ELSE payments[body.id].status = "FAILED"

\* C9: a callback that is malformed, names an unknown id or repeats a result
\* already applied changes no payment, order, cart or checkpoint.
C9_NoEffectCallbacks ==
    [][(/\ last'.op = "mpesa_callback"
        /\ \/ ~last'.body.json
           \/ last'.body.id \notin DOMAIN payments
           \/ Applied(last'.body))
       => UNCHANGED <<cart, orders, payments, mpesa_orders, current_payment_index>>]_vars

\* C10: after a success callback for a PENDING payment the payment is
\* COMPLETED and holds the receipt of the callback, and its order is paid,
\* in processing, and refers to that receipt.
C10_SuccessCallback ==
    (last.op = "mpesa_callback" /\ last.body.code = 0 /\ last.was = "PENDING")
    => LET payment == payments[last.body.id]
           order == orders[payment.order]
       IN  /\ payment.status = "COMPLETED"
           /\ payment.result_code = 0
           /\ payment.mpesa_receipt_number = last.body.receipt
           /\ order.paid
           /\ order.status = "processing"
           /\ order.payment_reference = last.body.receipt

C10_Witness ==
    /\ last.op = "mpesa_callback"
    /\ last.body.code = 0
    /\ last.body.receipt = "RCPT"
    /\ last.was = "PENDING"
    /\ payments[last.body.id].status = "COMPLETED"

----------------------------------------------------------------------------
(* Properties of the checkout *)

Placed == {"pochi_instructions", "redirect_process_next", "placed_failed_to_process"}

\* the orders a step adds
NewOrders == SubSeq(orders', Len(orders) + 1, Len(orders'))

Resolvable(c, gone) == SelectSeq(c, LAMBDA l : l.product \notin gone)

LinesOf(c, gone, v) == SelectSeq(Resolvable(c, gone), LAMBDA l : VendorOf[l.product] = v)

VendorsIn(c, gone) == {VendorOf[l.product] : l \in Range(Resolvable(c, gone))}

RECURSIVE SumItems(_)
SumItems(items) ==
    IF items = <<>> THEN 0
    ELSE Head(items).price * Head(items).quantity + SumItems(Tail(items))

LineOf(item) == [product |-> item.product, price |-> item.price, quantity |-> item.quantity]

\* C5: a checkout submission either adds one complete order for every vendor
\* group of the cart or adds nothing; one that reports the failure adds
\* nothing, and the orders that existed are untouched.
C5_AllOrNothing ==
    [][last'.op = "checkout"
       => LET groups == group_cart_by_vendor(cart, deleted) IN
          /\ SubSeq(orders', 1, Len(orders)) = orders
          /\ last'.res \notin Placed => NewOrders = <<>>
          /\ NewOrders # <<>> =>
                /\ Len(NewOrders) = Len(groups)
                /\ \A k \in 1..Len(groups) :
                      Len(NewOrders[k].items) = Len(groups[k].items)]_vars

\* a submission for a cart of two vendors failed and no order exists
C5_Witness ==
    /\ last.op = "checkout"
    /\ last.res = "failed_to_process"
    /\ Cardinality(VendorsIn(cart, deleted)) = 2
    /\ orders = <<>>

\* C6: a successful checkout adds exactly one order for each vendor of the
\* cart's resolvable lines; the order holds that vendor's lines, in the
\* cart's order, at the cart's prices and quantities, and its total is the
\* sum of price times quantity over its items.
C6_OneOrderPerVendor ==
    [][(last'.op = "checkout" /\ last'.res \in Placed)
       => /\ Len(NewOrders) = Cardinality(VendorsIn(cart, deleted))
          /\ \A v \in VendorsIn(cart, deleted) :
                \E k \in 1..Len(NewOrders) :
                   /\ [i \in 1..Len(NewOrders[k].items) |-> LineOf(NewOrders[k].items[i])]
                         = LinesOf(cart, deleted, v)
                   /\ \A i \in 1..Len(NewOrders[k].items) : NewOrders[k].items[i].vendor = v
                   /\ NewOrders[k].total = SumItems(NewOrders[k].items)]_vars

\* vendor A with 2 @ 100 and vendor B with 1 @ 500 give totals 200 and 500
C6_Witness ==
    /\ last.op = "checkout"
    /\ last.res \in Placed
    /\ Len(orders) = 2
    /\ orders[1].total = 200 /\ orders[1].items[1].quantity = 2
    /\ orders[2].total = 500

\* C7: a checkout submission empties the cart exactly when it has added the
\* orders of every vendor group, before any payment for them exists;
\* otherwise it leaves the cart and the orders as they were.
C7_ClearAfterCreate ==
    [][last'.op = "checkout"
       => IF last'.res \in Placed
          THEN /\ cart' = <<>>
               /\ Len(NewOrders) = Len(group_cart_by_vendor(cart, deleted))
               /\ NewOrders # <<>>
               /\ \A i \in DOMAIN payments' : payments'[i].order <= Len(orders)
          ELSE cart' = cart /\ orders' = orders]_vars

C7_Witness ==
    /\ last.op = "checkout"
    /\ last.res = "redirect_process_next"
    /\ cart = <<>>
    /\ Len(orders) = 2

----------------------------------------------------------------------------
(* Properties of the vendor settlement records *)

SettlementsOf(o) == {i \in DOMAIN vendor_payments : vendor_payments[i].order = o}

\* C11: no order has two VendorPayment rows, no unpaid order has one, and
\* the order a success callback has just marked paid has one.
C11_SettlementPerPaidOrder ==
    /\ \A o \in DOMAIN orders : Cardinality(SettlementsOf(o)) <= 1
    /\ \A o \in DOMAIN orders : ~orders[o].paid => SettlementsOf(o) = {}
    /\ (last.op = "mpesa_callback" /\ last.ack = 0 /\ last.body.code = 0)
       => SettlementsOf(payments[last.body.id].order) # {}

----------------------------------------------------------------------------
(* Properties of failed and rejected payments *)

\* C12: right after a failure callback for the PENDING payment of an order
\* of the attempt, the payment is FAILED, the order is unpaid, and the
\* checkpoint points at that order, so that the next dispatch targets it.
C12_FailureKeepsOrderCurrent ==
    (/\ last.op = "mpesa_callback"
     /\ last.ack = 0
     /\ last.body.code # 0
     /\ last.was = "PENDING"
     /\ payments[last.body.id].order \in Range(mpesa_orders))
    => LET payment == payments[last.body.id] IN
       /\ payment.status = "FAILED"
       /\ ~orders[payment.order].paid
       /\ CurrentIndex + 1 \in DOMAIN mpesa_orders
       /\ mpesa_orders[CurrentIndex + 1] = payment.order

Rejections == {"invalid_phone", "payment_failed"}

\* C13: a push request that is not accepted (the phone does not normalise,
\* or the gateway or the transport fails) leaves the order pending and
\* unpaid, creates no payment, and leaves the checkpoint on the same order.
C13_RejectionChangesNothing ==
    [][(last'.op = "process_next" /\ last'.res \in Rejections)
       => LET o == mpesa_orders[CurrentIndex + 1] IN
          /\ orders' = orders
          /\ orders'[o].status = "pending"
          /\ ~orders'[o].paid
          /\ payments' = payments
          /\ current_payment_index' = current_payment_index
          /\ mpesa_orders' = mpesa_orders
          /\ mpesa_orders'[CurrentIndex' + 1] = o]_vars

\* the request for the second order of an attempt was rejected
C13_Witness ==
    /\ last.op = "process_next"
    /\ last.res = "payment_failed"
    /\ Len(mpesa_orders) = 2
    /\ CurrentIndex = 1
    /\ Len(payments) = 1

----------------------------------------------------------------------------
(* Properties of settlement by hand *)

\* C14: the gateway never accepts a push request for an order that is
\* already paid.
C14_NoRequestForSettledOrder ==
    [][(last'.op = "process_next" /\ last'.res = "waiting")
       => ~orders[mpesa_orders[CurrentIndex + 1]].paid]_vars

----------------------------------------------------------------------------
(* Properties of the orders as a whole *)

\* the requests that must leave every existing order as it is: a checkout,
\* a rejected push request, a failure callback, a timeout notification, and
\* a confirmation request that does not confirm
LeavesOrders(l) ==
    \/ l.op = "checkout"
    \/ l.op = "process_next" /\ l.res \in Rejections
    \/ l.op = "mpesa_callback" /\ l.body.code # 0
    \/ l.op = "mpesa_timeout"
    \/ l.op = "confirm_vendor_payment" /\ l.res # "confirmed"

\* C15: no step removes an order, and the requests above leave every
\* existing order unchanged, so that the orders of an abandoned attempt stay
\* pending and unpaid when a new checkout is submitted.
C15_NoOrderLost ==
    [][/\ Len(orders') >= Len(orders)
       /\ \A o \in DOMAIN orders :
             /\ orders'[o].total = orders[o].total
             /\ orders'[o].items = orders[o].items
       /\ LeavesOrders(last') => SubSeq(orders', 1, Len(orders)) = orders]_vars

\* a second M-Pesa checkout while the order of the first is pending
C15_Witness ==
    /\ last.op = "checkout"
    /\ last.res = "redirect_process_next"
    /\ Len(orders) = 2
    /\ mpesa_orders = <<2>>
    /\ orders[1].status = "pending"
    /\ ~orders[1].paid

\* the user sells none of the items of the order
SellsNothingIn(user, o) ==
    \A i \in 1..Len(orders[o].items) : orders[o].items[i].vendor # user

\* C16: a confirmation or rejection posted by a user who has no Business,
\* or who sells none of the order's items, is refused and leaves every
\* order as it was.
C16_UnauthorisedConfirmation ==
    [][\A user \in Users, o \in DOMAIN orders, action \in {"confirm", "reject"} :
          (/\ ConfirmVendorPayment(user, o, "POST", action)
           /\ (user = Customer \/ SellsNothingIn(user, o)))
          => /\ last'.res \in {"no_business", "no_permission"}
             /\ orders' = orders]_vars

\* vendor B was refused for the unpaid order that holds vendor A's items
C16_Witness ==
    /\ last.op = "confirm_vendor_payment"
    /\ last.res = "no_permission"
    /\ \E o \in DOMAIN orders :
          /\ SellsNothingIn("B", o)
          /\ ~orders[o].paid
          /\ orders[o].payment_confirmed_by = NoUser

----------------------------------------------------------------------------
(* Properties of the phone normalisation *)

IntlPhone == <<"2", "5", "4">> \o Subscriber

AllDigits(s) == \A i \in 1..Len(s) : s[i] \in Digits

\* C17: 0712345678, 712345678 and 254712345678 all give 254712345678; an
\* input of six digits gives None; and every result is None or twelve digits.
C17_PhoneNormalisation ==
    call.done
    => /\ call.arg \in {LocalPhone, Subscriber, IntlPhone} => call.ret = IntlPhone
       /\ (Len(call.arg) = 6 /\ AllDigits(call.arg)) => call.ret = <<>>
       /\ call.ret = <<>> \/ (Len(call.ret) = 12 /\ AllDigits(call.ret))

\* 0712345678 has been normalised to 254712345678
C17_Witness ==
    /\ call.done
    /\ call.arg = LocalPhone
    /\ call.ret = IntlPhone

----------------------------------------------------------------------------
(* Properties of the checkout's input checks *)

InputErrors == {"cart_empty", "select_method", "phone_required", "invalid_method"}

\* C18: a checkout submission that is answered with an input error, or that
\* carries a phone number which does not normalise, changes no order, no
\* payment, not the cart and not the checkpoint.
C18_InputErrorsChangeNothing ==
    [][(\/ last'.op = "checkout" /\ last'.res \in InputErrors
        \/ \E m \in PaymentMethods : Checkout("POST", m, ShortPhone, NoFail))
       => UNCHANGED <<cart, orders, payments, mpesa_orders, current_payment_index>>]_vars

----------------------------------------------------------------------------
(* Properties of cash on delivery *)

CashOrders(os) == {o \in DOMAIN os : os[o].payment_method = "cash_on_delivery"}

\* C19: the orders a cash-on-delivery checkout creates are in processing
\* and unpaid, the checkout creates no payment, no push request is sent for
\* a cash-on-delivery order, and no payment is ever linked to one.
C19_CashOnDelivery ==
    [][/\ Checkout("POST", "cash_on_delivery", LocalPhone, NoFail)
          => /\ payments' = payments
             /\ \A k \in 1..Len(NewOrders) :
                   /\ NewOrders[k].status = "processing"
                   /\ ~NewOrders[k].paid
                   /\ NewOrders[k].payment_method = "cash_on_delivery"
       /\ (last'.op = "process_next" /\ last'.res \in {"waiting", "payment_failed"})
          => mpesa_orders[CurrentIndex + 1] \notin CashOrders(orders)
       /\ \A i \in DOMAIN payments' : payments'[i].order \notin CashOrders(orders')]_vars

\* a cash-on-delivery order beside an M-Pesa order with a payment
C19_Witness ==
    /\ payments # <<>>
    /\ \E o \in CashOrders(orders) :
          /\ orders[o].status = "processing"
          /\ ~orders[o].paid

----------------------------------------------------------------------------
(* Properties of the cart *)

\* C20: after every request each line of the cart has a quantity of at
\* least one, and decrementing a line of quantity one removes the line.
C20_QuantityAtLeastOne ==
    [][/\ \A i \in 1..Len(cart') : cart'[i].quantity >= 1
       /\ \A p \in Products \ deleted :
             (CartDecrement(p) /\ QuantityIn(cart, p) = 1) => ~InCart(cart', p)]_vars

\* the last unit of one of two lines was taken away
C20_Witness ==
    /\ last.op = "cart_decrement"
    /\ last.res = "removed"
    /\ Len(cart) = 1

----------------------------------------------------------------------------
(* Properties of the prices *)

RECURSIVE SumLines(_)
SumLines(lines) ==
    IF lines = <<>> THEN 0
    ELSE Head(lines).price * Head(lines).quantity + SumLines(Tail(lines))

\* C21: a line keeps the price its product had when the line was added,
\* whatever the vendor sets later and however often the product is added
\* again, and a checkout gives each vendor's order the total of that
\* vendor's lines at the lines' prices and freezes those prices on the items.
C21_PriceOfTheCartLine ==
    [][/\ \A p \in Products :
             IF InCart(cart, p)
             THEN InCart(cart', p) => cart'[CartIndex(cart', p)].price = cart[CartIndex(cart, p)].price
             ELSE InCart(cart', p) => cart'[CartIndex(cart', p)].price = product_price[p]
       /\ (last'.op = "checkout" /\ last'.res \in Placed)
          => \A k \in 1..Len(NewOrders) :
                LET lines == LinesOf(cart, deleted, NewOrders[k].items[1].vendor) IN
                /\ NewOrders[k].total = SumLines(lines)
                /\ Len(NewOrders[k].items) = Len(lines)
                /\ \A i \in 1..Len(lines) : NewOrders[k].items[i].price = lines[i].price]_vars

\* an order of two units at 100 each, placed after the price went to 120
C21_Witness ==
    /\ last.op = "checkout"
    /\ last.res \in Placed
    /\ \E o \in DOMAIN orders :
          /\ orders[o].items[1].price = 100
          /\ orders[o].items[1].quantity = 2
          /\ orders[o].total = 200
          /\ product_price[orders[o].items[1].product] = 120

----------------------------------------------------------------------------
(* Properties of the order through its life *)

\* C22: no push request, callback, timeout, status poll, confirmation,
\* status update or price change alters the total or the items of an order
\* that exists, and every order's total is the sum of price times quantity
\* over its items.
C22_OrderFrozen ==
    [][/\ \A o \in DOMAIN orders :
             /\ o \in DOMAIN orders'
             /\ orders'[o].total = orders[o].total
             /\ orders'[o].items = orders[o].items
       /\ \A o \in DOMAIN orders' : orders'[o].total = SumItems(orders'[o].items)]_vars

\* an order bought at 100 was paid by a callback after the price went to 120
C22_Witness ==
    /\ last.op = "mpesa_callback"
    /\ last.body.code = 0
    /\ last.was = "PENDING"
    /\ LET order == orders[payments[last.body.id].order] IN
       /\ order.paid
       /\ order.total = 100
       /\ order.items[1].price = 100
       /\ product_price[order.items[1].product] = 120

----------------------------------------------------------------------------
(* Properties of the order of the push requests *)

\* the orders of the attempt that a push request was accepted for
Requested(ps) == {ps[i].order : i \in DOMAIN ps}

\* C23: a checkout lists the orders of the attempt in the order in which
\* their vendors were grouped; an accepted push request is for the order at
\* the checkpoint, the first one for the first order of the list, and by
\* then a request has been accepted for every order before it in the list.
C23_RequestsInListOrder ==
    [][/\ (last'.op = "checkout" /\ last'.res = "redirect_process_next")
          => /\ mpesa_orders' = [k \in 1..Len(NewOrders) |-> Len(orders) + k]
             /\ LET groups == group_cart_by_vendor(cart, deleted) IN
                \A k \in 1..Len(NewOrders) :
                   \A i \in 1..Len(NewOrders[k].items) :
                      NewOrders[k].items[i].vendor = groups[k].vendor
       /\ (last'.op = "process_next" /\ last'.res = "waiting")
          => LET j == CurrentIndex + 1 IN
             /\ payments'[Len(payments')].order = mpesa_orders[j]
             /\ Requested(payments) \cap Range(mpesa_orders) = {} => j = 1
             /\ \A i \in 1..(j - 1) : mpesa_orders[i] \in Requested(payments)]_vars

\* the request for the second order was accepted after that for the first
C23_Witness ==
    /\ last.op = "process_next"
    /\ last.res = "waiting"
    /\ Len(mpesa_orders) = 2
    /\ CurrentIndex = 2
    /\ payments[Len(payments)].order = mpesa_orders[2]
    /\ mpesa_orders[1] \in Requested(payments)

----------------------------------------------------------------------------
(* Properties of the grouping *)

\* the line's product is gone or has no business
Unresolvable(l, gone) == l.product \in gone \/ VendorOf[l.product] = NoVendor

\* C24: no checkout puts the product of an unresolvable line into an order,
\* and a checkout of a cart that is empty, or that has only unresolvable
\* lines, is refused and leaves the orders and the cart as they were.
C24_UnresolvableLinesDropped ==
    [][last'.op = "checkout"
       => /\ \A k \in 1..Len(NewOrders) : \A i \in 1..Len(NewOrders[k].items) :
                /\ NewOrders[k].items[i].product \notin deleted
                /\ VendorOf[NewOrders[k].items[i].product] # NoVendor
          /\ (\A i \in 1..Len(cart) : Unresolvable(cart[i], deleted))
             => /\ last'.res \in {"cart_empty", "invalid_items"}
                /\ orders' = orders
                /\ cart' = cart]_vars

\* a cart whose only line names a deleted product was refused at checkout
C24_Witness ==
    /\ last.op = "checkout"
    /\ last.res = "invalid_items"
    /\ Len(cart) = 1
    /\ cart[1].product \in deleted
    /\ orders = <<>>

----------------------------------------------------------------------------
(* Properties of the reach of a callback *)

\* C25: a callback for the id X writes no payment but the one with id X
\* and no order but the one that payment is linked to; it adds and removes
\* no payment and no order.
C25_CallbackTouchesOnePair ==
    [][last'.op = "mpesa_callback"
       => LET X == last'.body.id IN
          /\ DOMAIN payments' = DOMAIN payments
          /\ DOMAIN orders' = DOMAIN orders
          /\ \A i \in DOMAIN payments : i # X => payments'[i] = payments[i]
          /\ \A o \in DOMAIN orders :
                (X \notin DOMAIN payments \/ o # payments[X].order)
                => orders'[o] = orders[o]]_vars

\* the first order of an attempt was paid by its callback while the second
\* order of the attempt waits, unpaid, with its own pending payment
C25_Witness ==
    /\ last.op = "mpesa_callback"
    /\ last.body.code = 0
    /\ last.was = "PENDING"
    /\ Len(payments) = 2
    /\ last.body.id = 1
    /\ payments[1].status = "COMPLETED"
    /\ payments[2].status = "PENDING"
    /\ payments[2].order # payments[1].order
    /\ orders[payments[1].order].paid
    /\ ~orders[payments[2].order].paid
    /\ orders[payments[2].order].status = "pending"

----------------------------------------------------------------------------
(* Properties of the end of the flow *)

\* C26: when process_next_vendor_payment finds the checkpoint past the last
\* order of an attempt and reports that all payments are completed, every
\* order of the attempt is paid and has a payment in a terminal state.
C26_DoneMeansSettled ==
    [][(/\ last'.op = "process_next"
        /\ last'.res = "all_completed"
        /\ mpesa_orders # <<>>)
       => \A k \in DOMAIN mpesa_orders :
             /\ orders[mpesa_orders[k]].paid
             /\ \E i \in DOMAIN payments :
                   /\ payments[i].order = mpesa_orders[k]
                   /\ payments[i].status \in Terminal]_vars

----------------------------------------------------------------------------
(* Properties of the payment record *)

\* C27: the payments grow only by a push request that the gateway accepted:
\* that request adds exactly one payment, PENDING, under the gateway's id,
\* for the order at the checkpoint and of the order's total, and stores the
\* same id on the order; every other request leaves the number of payments
\* as it was.
C27_PaymentOnlyOnAcceptance ==
    [][IF \E phone \in Phones : ProcessNextVendorPayment("POST", phone, "accepted")
          /\ last'.res = "waiting"
       THEN LET id == Len(payments) + 1
                o == mpesa_orders[CurrentIndex + 1]
            IN  /\ DOMAIN payments' = DOMAIN payments \cup {id}
                /\ SubSeq(payments', 1, Len(payments)) = payments
                /\ payments'[id].status = "PENDING"
                /\ payments'[id].order = o
                /\ payments'[id].amount = orders[o].total
                /\ orders'[o].checkout_request_id = id
       ELSE Len(payments') = Len(payments)]_vars

\* the payment of the second order of an attempt, of 500 shillings
C27_Witness ==
    /\ last.op = "process_next"
    /\ last.res = "waiting"
    /\ Len(payments) = 2
    /\ payments[2].status = "PENDING"
    /\ payments[2].amount = 500
    /\ orders[payments[2].order].checkout_request_id = 2
    /\ orders[payments[2].order].total = 500

----------------------------------------------------------------------------
(* Properties of the order status *)

\* C28: the status of every order is one of pending, processing, completed
\* and cancelled.
C28_StatusIsAChoice == \A o \in DOMAIN orders : orders[o].status \in StatusChoices

----------------------------------------------------------------------------
(* Properties of the status poll *)

\* C29: a poll for the id of a payment reports the status the payment has,
\* names the success page of the payment's order exactly when that status is
\* COMPLETED, and leaves the payments, the orders, the cart and the
\* checkpoint as they were.
C29_PollReportsStoredStatus ==
    [][(last'.op = "payment_status" /\ last'.id \in DOMAIN payments)
       => LET payment == payments[last'.id] IN
          /\ last'.res = payment.status
          /\ last'.redirect_url # NoId <=> payment.status = "COMPLETED"
          /\ last'.redirect_url # NoId => last'.redirect_url = payment.order
          /\ UNCHANGED <<cart, orders, payments, mpesa_orders, current_payment_index>>]_vars

\* a poll after the success callback: COMPLETED, with the order's success page
C29_Witness ==
    /\ last.op = "payment_status"
    /\ last.id \in DOMAIN payments
    /\ last.res = "COMPLETED"
    /\ last.redirect_url = payments[last.id].order
    /\ orders[last.redirect_url].paid

\* C30: a poll for a payment that is still PENDING asks the gateway for the
\* state of the request.
C30_PendingPollAsksGateway ==
    [][(/\ last'.op = "payment_status"
        /\ last'.id \in DOMAIN payments
        /\ payments[last'.id].status = "PENDING")
       => last'.queried]_vars

----------------------------------------------------------------------------
(* Concurrent requests of one session.  SessionMiddleware gives each        *)
(* request its own copy of the session, loaded when the view first reads    *)
(* it, and writes the whole dictionary back with the response when the     *)
(* view modified it.  A request is in flight from the moment its view has   *)
(* loaded what it reads until it writes and answers; the gateway call of a  *)
(* dispatch lies in between.                                                *)

MaxRaceSteps == 7
MaxConcurrent == 2

\* the session a request loads
Session == [cart |-> cart, mpesa_orders |-> mpesa_orders,
            current_payment_index |-> current_payment_index]

\* the response's session save: every key, as the request holds it
SaveSession(s) ==
    /\ cart' = s.cart
    /\ mpesa_orders' = s.mpesa_orders
    /\ current_payment_index' = s.current_payment_index

IndexOf(s) == IF s.current_payment_index = NoIndex THEN 0 ELSE s.current_payment_index

\* one more step of a request in flight is taken, up to the bound
RaceTick == steps < MaxRaceSteps /\ steps' = steps + 1 /\ UNCHANGED call

\* cart_add up to Cart(request): the session is loaded
BeginCartAdd(p) ==
    /\ Len(inflight) < MaxConcurrent
    /\ inflight' = Append(inflight, [op |-> "cart_add", p |-> p, session |-> Session])
    /\ UNCHANGED <<cart, deleted, product_price, orders, payments, vendor_payments,
                   mpesa_orders, current_payment_index, last>>

\* process_next_vendor_payment, a POST with a phone number, up to the
\* gateway call: the session and the order row are loaded
BeginDispatch(phone, outcome) ==
    /\ Len(inflight) < MaxConcurrent
    /\ mpesa_orders # <<>>
    /\ CurrentIndex < Len(mpesa_orders)
    /\ orders[mpesa_orders[CurrentIndex + 1]].items # <<>>
    /\ format_phone_number(phone) # <<>>
    /\ inflight' = Append(inflight,
           [op |-> "process_next", phone |-> phone, outcome |-> outcome,
            session |-> Session, order |-> orders[mpesa_orders[CurrentIndex + 1]]])
    /\ UNCHANGED <<cart, deleted, product_price, orders, payments, vendor_payments,
                   mpesa_orders, current_payment_index, last>>

\* the rest of cart_add: Cart(request) sets a missing cart key, cart.add
\* saves the cart, and the response writes the session the request holds
FinishCartAdd(r) ==
    /\ IF r.p \in deleted
       THEN /\ IF r.session.cart = <<>> THEN SaveSession(r.session)
               ELSE UNCHANGED <<cart, mpesa_orders, current_payment_index>>
            /\ last' = Served("cart_add", "404")
       ELSE IF AddRaises(r.session.cart, r.p)
       THEN /\ UNCHANGED <<cart, mpesa_orders, current_payment_index>>
            /\ last' = Served("cart_add", "500")
       ELSE /\ SaveSession([r.session EXCEPT !.cart = CartAddLine(r.session.cart, r.p)])
            /\ last' = Served("cart_add", "added")
    /\ UNCHANGED <<product_price, vendor_payments, deleted, orders, payments>>

\* the rest of process_single_vendor_payment: the gateway has answered;
\* order.save() writes every field of the row the request loaded
FinishDispatch(r) ==
    LET current_index == IndexOf(r.session)
        order_id == r.session.mpesa_orders[current_index + 1]
        response == stk_push(format_phone_number(r.phone), r.outcome, Len(payments) + 1)
    IN  IF response.success /\ response.ResponseCode = "0"
        THEN /\ payments' = Append(payments, NewPayment(order_id, r.order))
             /\ orders' = [orders EXCEPT ![order_id] = [r.order EXCEPT
                    !.checkout_request_id = response.CheckoutRequestID,
                    !.payment_method = "mpesa_till"]]
             /\ SaveSession([r.session EXCEPT !.current_payment_index = current_index + 1])
             /\ last' = Served("process_next", "waiting")
             /\ UNCHANGED <<product_price, vendor_payments, deleted>>
        ELSE Unchanged_flow /\ last' = Served("process_next", "payment_failed")

Without(s, i) == SubSeq(s, 1, i - 1) \o SubSeq(s, i + 1, Len(s))

\* a request in flight completes
Finish(i) ==
    /\ inflight' = Without(inflight, i)
    /\ IF inflight[i].op = "cart_add" THEN FinishCartAdd(inflight[i])
       ELSE FinishDispatch(inflight[i])

RaceOutcomes == {"accepted", "declined"}

\* the payment flow with requests of one session overlapping
NextRace ==
    \/ Tick(MaxRaceSteps) /\ \E p \in FlowProducts : CartAdd(p)
    \/ Tick(MaxRaceSteps) /\ Checkout("POST", "mpesa_till", LocalPhone, NoFail)
    \/ Tick(MaxRaceSteps) /\ ProcessNextVendorPayment("GET", <<>>, "accepted")
    \/ Tick(MaxRaceSteps) /\ Callback
    \/ RaceTick /\ \E p \in FlowProducts : BeginCartAdd(p)
    \/ RaceTick /\ \E outcome \in RaceOutcomes : BeginDispatch(LocalPhone, outcome)
    \/ RaceTick /\ \E i \in DOMAIN inflight : Finish(i)

SpecRace == Init /\ [][NextRace]_vars

\* a request in flight completes in this step
Finishes(op) ==
    /\ Len(inflight') < Len(inflight)
    /\ last'.op = op

\* C31: outside a checkout that stores a new checkpoint and the request
\* that finds the attempt done, no request of the session changes the list
\* of order ids or moves the index back, whatever overlaps with it
C31_CheckpointNeverRolledBack ==
    [][(last'.op \notin {"checkout"} /\ last'.res # "all_completed")
        => /\ mpesa_orders' = mpesa_orders
           /\ current_payment_index' >= current_payment_index]_vars

----------------------------------------------------------------------------
(* The gateway client call by call.  A reply is what the HTTP layer does    *)
(* with one request: it raises, or it returns a response with a status     *)
(* code and a body that is a JSON object (with or without an access        *)
(* token), another JSON value, or not JSON.                                *)

MaxClientSteps == 3

TransportErrors == {"ConnectionError", "Timeout", "TooManyRedirects"}
StatusCodes == {200, 401, 403, 429, 500}
ReplyBodies == {"token", "object", "array", "text"}

Reply(raises, status_code, body) ==
    [raises |-> raises, status_code |-> status_code, body |-> body]

\* the body is read of a 200 reply only
Replies ==
    {Reply(e, 0, "") : e \in TransportErrors} \cup
    {Reply("", 200, b) : b \in ReplyBodies} \cup
    {Reply("", c, "text") : c \in StatusCodes \ {200}}

NoToken == ""

\* what the try block of get_access_token raises: requests.get, or
\* response.json().get on a body that is not a JSON object
TokenRaises(reply) ==
    IF reply.raises # "" THEN reply.raises
    ELSE IF reply.status_code = 200 /\ reply.body = "text" THEN "JSONDecodeError"
    ELSE IF reply.status_code = 200 /\ reply.body = "array" THEN "AttributeError"
    ELSE ""

\* MpesaClient.get_access_token: None for every failure
get_access_token(configured, reply) ==
    IF ~configured THEN NoToken
    ELSE IF TokenRaises(reply) = "ConnectionError" THEN NoToken
    ELSE IF TokenRaises(reply) = "Timeout" THEN NoToken
    ELSE IF TokenRaises(reply) # "" THEN NoToken
    ELSE IF reply.status_code = 200
    THEN (IF reply.body = "token" THEN "TOKEN" ELSE NoToken)
    ELSE NoToken

\* what the try block of stk_push and of query_status raises: requests.post,
\* response.json() on a body that is not JSON, or result['success'] = True
\* on a JSON value that is not an object
PostRaises(reply) ==
    IF reply.raises # "" THEN reply.raises
    ELSE IF reply.status_code = 200 /\ reply.body = "text" THEN "JSONDecodeError"
    ELSE IF reply.status_code = 200 /\ reply.body = "array" THEN "TypeError"
    ELSE ""

\* what a client call gives its caller: a dictionary, or an exception
Returned(success, error, status_code) ==
    [raised |-> "", success |-> success, error |-> error, status_code |-> status_code]
Propagated(exception) ==
    [raised |-> exception, success |-> FALSE, error |-> "", status_code |-> 0]

\* faulty variant: no handler for a timeout
MpesaClient_stk_push_timeout_escapes(phone_number, configured, token_reply, post_reply) ==
    IF format_phone_number(phone_number) = <<>>
    THEN Returned(FALSE, "Invalid phone number", 0)
    ELSE IF get_access_token(configured, token_reply) = NoToken
    THEN Returned(FALSE, "Failed to get access token", 0)
    ELSE IF PostRaises(post_reply) = "ConnectionError"
    THEN Returned(FALSE, "Connection error", 0)
    ELSE IF PostRaises(post_reply) = "Timeout"
    THEN Propagated("Timeout")
    ELSE IF PostRaises(post_reply) # ""
    THEN Returned(FALSE, PostRaises(post_reply), 0)
    ELSE IF post_reply.status_code = 200
    THEN Returned(TRUE, "", 200)
    ELSE Returned(FALSE, "Failed to initiate payment", post_reply.status_code)

\* MpesaClient.stk_push
MpesaClient_stk_push(phone_number, configured, token_reply, post_reply) ==
    IF format_phone_number(phone_number) = <<>>
    THEN Returned(FALSE, "Invalid phone number", 0)
    ELSE IF get_access_token(configured, token_reply) = NoToken
    THEN Returned(FALSE, "Failed to get access token", 0)
    ELSE IF PostRaises(post_reply) = "ConnectionError"
    THEN Returned(FALSE, "Connection error", 0)
    ELSE IF PostRaises(post_reply) = "Timeout"
    THEN Returned(FALSE, "Request timeout", 0)
    ELSE IF PostRaises(post_reply) # ""
    THEN Returned(FALSE, PostRaises(post_reply), 0)
    ELSE IF post_reply.status_code = 200
    THEN Returned(TRUE, "", 200)
    ELSE Returned(FALSE, "Failed to initiate payment", post_reply.status_code)

\* MpesaClient.query_status
MpesaClient_query_status(configured, token_reply, post_reply) ==
    IF get_access_token(configured, token_reply) = NoToken
    THEN Returned(FALSE, "Failed to get access token", 0)
    ELSE IF PostRaises(post_reply) = "ConnectionError"
    THEN Returned(FALSE, "Connection error", 0)
    ELSE IF PostRaises(post_reply) = "Timeout"
    THEN Returned(FALSE, "Request timeout", 0)
    ELSE IF PostRaises(post_reply) # ""
    THEN Returned(FALSE, PostRaises(post_reply), 0)
    ELSE IF post_reply.status_code = 200
    THEN Returned(TRUE, "", 200)
    ELSE IF post_reply.status_code = 403
    THEN Returned(FALSE, "Authentication failed. Check your credentials.", 403)
    ELSE IF post_reply.status_code = 429
    THEN Returned(FALSE, "Too many requests. Please wait a moment.", 429)
    ELSE Returned(FALSE, "Failed to query status", post_reply.status_code)

\* the client is called: what it was called with and what came back, and
\* whether the call contacted the credential endpoint.  held says that
\* the gateway issued this client a credential that has not expired and
\* that it has not answered 401 since.
ClientArgs == [op |-> "none", phone_number |-> <<>>, configured |-> TRUE,
               token_reply |-> Reply("", 0, ""), post_reply |-> Reply("", 0, "")]

InitClient ==
    /\ cart = <<>>
    /\ deleted = {}
    /\ product_price = PriceOf
    /\ orders = <<>>
    /\ payments = <<>>
    /\ vendor_payments = <<>>
    /\ mpesa_orders = <<>>
    /\ current_payment_index = NoIndex
    /\ last = Served("none", "none")
    /\ steps = 0
    /\ inflight = <<>>
    /\ call = [arg |-> ClientArgs, ret |-> Returned(FALSE, "", 0), done |-> FALSE,
               contacted |-> FALSE, held |-> FALSE, held_before |-> FALSE]

\* the credential endpoint is contacted by every call that reaches
\* get_access_token with the consumer key and secret configured
Contacts(op, phone_number, configured) ==
    /\ configured
    /\ op = "stk_push" => format_phone_number(phone_number) # <<>>

ClientCall(op, phone_number, configured, token_reply, post_reply) ==
    LET ret == IF op = "stk_push"
               THEN MpesaClient_stk_push(phone_number, configured, token_reply, post_reply)
               ELSE MpesaClient_query_status(configured, token_reply, post_reply)
        contacted == Contacts(op, phone_number, configured)
        issued == contacted /\ get_access_token(configured, token_reply) # NoToken
        posted == get_access_token(configured, token_reply) # NoToken
                  /\ (op = "stk_push" => format_phone_number(phone_number) # <<>>)
        refused == posted /\ post_reply.raises = "" /\ post_reply.status_code = 401
    IN  /\ steps < MaxClientSteps
        /\ steps' = steps + 1
        /\ call' = [arg |-> [op |-> op, phone_number |-> phone_number,
                             configured |-> configured,
                             token_reply |-> token_reply, post_reply |-> post_reply],
                    ret |-> ret, done |-> TRUE, contacted |-> contacted,
                    held |-> (issued \/ call.held) /\ ~refused,
                    held_before |-> call.held]
        /\ UNCHANGED <<cart, deleted, product_price, orders, payments, vendor_payments,
                       mpesa_orders, current_payment_index, last, inflight>>

\* the credential's life time passes
Expire ==
    /\ call.held
    /\ steps < MaxClientSteps
    /\ steps' = steps + 1
    /\ call' = [call EXCEPT !.held = FALSE, !.done = FALSE, !.contacted = FALSE]
    /\ UNCHANGED <<cart, deleted, product_price, orders, payments, vendor_payments,
                   mpesa_orders, current_payment_index, last, inflight>>

ClientPhones == {LocalPhone, ShortPhone}

NextClient ==
    \/ \E phone_number \in ClientPhones, configured \in BOOLEAN,
          token_reply \in Replies, post_reply \in Replies :
            ClientCall("stk_push", phone_number, configured, token_reply, post_reply)
    \/ \E configured \in BOOLEAN, token_reply \in Replies, post_reply \in Replies :
            ClientCall("query_status", <<>>, configured, token_reply, post_reply)
    \/ Expire

SpecClient == InitClient /\ [][NextClient]_vars

\* the gateway did not take the request: no credential, a transport error,
\* a status other than 200, or a body that cannot be read
GatewayFailed(arg) ==
    \/ ~arg.configured
    \/ arg.token_reply.raises # ""
    \/ arg.token_reply.status_code # 200
    \/ arg.token_reply.body # "token"
    \/ arg.post_reply.raises # ""
    \/ arg.post_reply.status_code # 200
    \/ arg.post_reply.body \in {"text", "array"}

\* C32: a call of stk_push or query_status raises nothing; when the
\* credential fetch or the request failed it returns success = false with an
\* error text, and it returns success = true only for an HTTP 200 reply
C32_NoRawTransportError ==
    call.done =>
        /\ call.ret.raised = ""
        /\ GatewayFailed(call.arg) => (~call.ret.success /\ call.ret.error # "")
        /\ call.ret.success =>
              (call.arg.post_reply.raises = "" /\ call.arg.post_reply.status_code = 200)

\* a request that times out after the credential was issued
C32_Witness ==
    /\ call.done
    /\ call.arg.op = "stk_push"
    /\ call.arg.token_reply.body = "token"
    /\ call.arg.token_reply.status_code = 200
    /\ call.arg.post_reply.raises = "Timeout"
    /\ call.ret = Returned(FALSE, "Request timeout", 0)

\* C33: a call contacts the credential endpoint only when the client holds
\* no credential: none was issued to it, the one issued has expired, or the
\* gateway has answered 401 since
C33_CredentialFetchedOnlyWhenNeeded ==
    (call.done /\ call.contacted) => ~call.held_before

----------------------------------------------------------------------------
(* Properties of the manual settlement and of the paid flag *)

\* C34: when a vendor who sells an item of the order posts to
\* confirm_vendor_payment, 'confirm' sets paid, sets the status to
\* processing and records the vendor and the time; 'reject' leaves paid and
\* status as they were; any other action changes no order
C34_VendorConfirmation ==
    [][\A user \in Users \ {Customer}, o \in DOMAIN orders, action \in Actions :
          (/\ ConfirmVendorPayment(user, o, "POST", action)
           /\ ~SellsNothingIn(user, o))
          => /\ action = "confirm" =>
                  /\ orders'[o].paid
                  /\ orders'[o].status = "processing"
                  /\ orders'[o].payment_confirmed_by = user
                  /\ orders'[o].payment_confirmed_at # NoTime
                  /\ last'.res = "confirmed"
             /\ action = "reject" =>
                  /\ orders'[o].paid = orders[o].paid
                  /\ orders'[o].status = orders[o].status
                  /\ last'.res = "rejected"
             /\ action \notin {"confirm", "reject"} => orders' = orders
             /\ \A other \in DOMAIN orders \ {o} : orders'[other] = orders[other]]_vars

\* vendor A's rejection of an order that vendor A had confirmed before
C34_Witness ==
    /\ last.op = "confirm_vendor_payment"
    /\ last.res = "rejected"
    /\ \E o \in DOMAIN orders :
          /\ ~SellsNothingIn("A", o)
          /\ orders[o].paid
          /\ orders[o].status = "processing"
          /\ orders[o].payment_confirmed_by = "A"

\* C35: an order of the push-payment path is paid only while a payment
\* linked to it is COMPLETED
C35_PaidOnlyWithCompletedPayment ==
    \A o \in DOMAIN orders :
        (orders[o].payment_method \in {"mpesa_pending", "mpesa_till"} /\ orders[o].paid)
        => \E i \in DOMAIN payments :
              payments[i].order = o /\ payments[i].status = "COMPLETED"

\* C36: when dispatches of one session overlap, a request is accepted and
\* records a payment only for an order that has no payment yet
C36_OneAcceptedPushPerOrder ==
    [][(Finishes("process_next") /\ Len(payments') > Len(payments))
        => \A i \in DOMAIN payments :
              payments[i].order # payments'[Len(payments')].order]_vars

\* C37: an order that is paid stays paid, whatever request is served next
C37_PaidIsMonotonic ==
    [][\A o \in DOMAIN orders : orders[o].paid => orders'[o].paid]_vars

\* C38: a callback removes no line from the cart
C38_CallbackLeavesCart ==
    [][last'.op = "mpesa_callback" => cart' = cart]_vars

----------------------------------------------------------------------------
(* Termination of the sequential flow *)

\* C39: while an attempt's list of orders stands, the index does not
\* decrease and stays between 0 and the number of orders
C39_IndexOnlyAdvances ==
    [][(mpesa_orders # <<>> /\ mpesa_orders' = mpesa_orders)
        => /\ current_payment_index' >= current_payment_index
           /\ 0 <= current_payment_index'
           /\ current_payment_index' <= Len(mpesa_orders)]_vars

MaxLiveSteps == 4

\* a request of the flow is served at any time; the count stops at the bound
LiveTick ==
    /\ steps' = (IF steps < MaxLiveSteps THEN steps + 1 ELSE steps)
    /\ UNCHANGED <<call, inflight>>

\* the customer submits the phone number and the gateway accepts
Submit == LiveTick /\ ProcessNextVendorPayment("POST", LocalPhone, "accepted")

\* requests served one at a time: carts and checkouts up to the bound, the
\* payment flow and its callbacks without a bound
NextLive ==
    \/ Tick(MaxLiveSteps) /\ \E p \in FlowProducts : CartAdd(p)
    \/ Tick(MaxLiveSteps) /\ Checkout("POST", "mpesa_till", LocalPhone, NoFail)
    \/ LiveTick /\ Pay
    \/ LiveTick /\ Callback

\* the customer keeps submitting and the gateway eventually accepts
SpecLive == Init /\ [][NextLive]_vars /\ WF_vars(Submit)

\* served one at a time, an attempt reaches its end: the checkpoint is removed
SequentialFlowTerminates == (mpesa_orders # <<>>) ~> (mpesa_orders = <<>>)
=============================================================================
